---- MODULE Spec2Model ----
(***************************************************************************)
(* A model of exceptiongroup.ExceptionGroup (src/exceptiongroup/__init__.py) *)
(* as a state machine over a heap of group objects, the magic attributes    *)
(* (__traceback__, __context__, __cause__, __suppress_context__) of every   *)
(* exception object, and the stack of exceptions being handled by the       *)
(* calling scope.                                                           *)
(***************************************************************************)
EXTENDS Integers, Sequences, FiniteSets, TLC

VARIABLES
    groups,    \* heap of ExceptionGroup instances: groups[k] is object Grp(k)
    attrs,     \* magic attributes of every exception object
    handling,  \* stack of exceptions being handled; its top is sys.exc_info()[1]
    raises,    \* number of raise statements executed by maybe_reraise so far
    last       \* the last call made by the client, its arguments and its outcome

vars == <<groups, attrs, handling, raises, last>>

(***************************************************************************)
(* Bounds of the exploration.                                              *)
(***************************************************************************)
MaxLen == 1        \* longest list handed to the constructor by the client
MaxGroups == 3     \* group instances allocated in one behaviour
MaxRaises == 2     \* raise statements executed in one behaviour
MaxDerived == 1    \* groups derived from the constructed one when re-raising
MaxQueryLen == 3   \* longest group searched with find / findall / in

(***************************************************************************)
(* Object references.  Every reference is a tagged pair, so that identity  *)
(* (the pair) is kept apart from Python equality (PyEq below).             *)
(***************************************************************************)
None == <<"None", 0>>
IMPLICIT == <<"int", 0>>
Exc(i) == <<"exc", i>>
Grp(k) == <<"group", k>>
NotAnException == <<"str", 0>>

ValueErrors == {Exc(1), Exc(2)}
EqErrors == {Exc(3), Exc(4)}
Leaves == ValueErrors \cup EqErrors
Values == Leaves \cup {NotAnException}
Labels == {"", "x"}
Messages == {"E", "M"}

SeqsUpTo(S, n) == UNION {[1..k -> S] : k \in 0..n}

ClassOf(x) ==
    CASE x \in ValueErrors -> "ValueError"
      [] x \in EqErrors -> "EqError"
      [] x[1] = "group" -> "ExceptionGroup"
      [] x[1] = "str" -> "str"
      [] x[1] = "int" -> "int"
      [] OTHER -> "NoneType"

Mro(cls) ==
    CASE cls = "ValueError" -> {"ValueError", "Exception", "BaseException"}
      [] cls = "EqError" -> {"EqError", "TypeError", "Exception", "BaseException"}
      [] cls = "ExceptionGroup" -> {"ExceptionGroup", "BaseException"}
      [] OTHER -> {cls}

IsInstance(x, kinds) == Mro(ClassOf(x)) \cap kinds # {}

\* Python's == as list.index and `in` apply it: identity first, then __eq__.
\* BaseException inherits object.__eq__ (identity); the class EqError
\* overrides __eq__ to compare type and args, and its instances carry equal args.
PyEq(a, b) == a = b \/ (ClassOf(a) = "EqError" /\ ClassOf(b) = "EqError")

(***************************************************************************)
(* The heap.                                                               *)
(***************************************************************************)
NoGroup == [message |-> "", exceptions |-> <<>>, sources |-> <<>>]

NoAttrs == [traceback |-> FALSE, context |-> None, cause |-> None,
            suppress_context |-> FALSE]

Objects == Leaves \cup {Grp(k) : k \in 1..MaxGroups}

NoCall == [op |-> "none", self |-> None, args |-> <<>>, outcome |-> "none",
           value |-> None, pre |-> NoGroup, ambient |-> None]

Call(op, self, args, outcome, value, pre, ambient) ==
    [op |-> op, self |-> self, args |-> args, outcome |-> outcome,
     value |-> value, pre |-> pre, ambient |-> ambient]

Init ==
    /\ groups = <<>>
    /\ attrs = [o \in Objects |-> NoAttrs]
    /\ handling = <<>>
    /\ raises = 0
    /\ last = NoCall

\* sys.exc_info()[1]
Ambient == IF handling = <<>> THEN None ELSE handling[Len(handling)]

\* A raised exception propagates until an except block takes it.
Propagating == last.outcome = "raise"

(***************************************************************************)
(* ExceptionGroup.__init__                                                 *)
(***************************************************************************)
InitOutcomeLengthFirst(message, exceptions, sources) ==
    IF Len(sources) # Len(exceptions) THEN "ValueError"
    ELSE IF \E i \in 1..Len(exceptions) :
                ~IsInstance(exceptions[i], {"BaseException"})
         THEN "TypeError"
         ELSE "ok"

InitOutcome(message, exceptions, sources) ==
    IF \E i \in 1..Len(exceptions) :
           ~IsInstance(exceptions[i], {"BaseException"})
    THEN "TypeError"
    ELSE IF Len(sources) # Len(exceptions) THEN "ValueError"
         ELSE "ok"

NewGroup(message, exceptions, sources) ==
    [message |-> message, exceptions |-> exceptions, sources |-> sources]

Construct(message, exceptions, sources) ==
    /\ ~Propagating
    /\ Len(groups) < MaxGroups
    /\ LET out == InitOutcome(message, exceptions, sources)
           new == Len(groups) + 1
       IN  /\ groups' = IF out = "ok"
                        THEN Append(groups, NewGroup(message, exceptions, sources))
                        ELSE groups
           /\ last' = Call("init", None, <<message, exceptions, sources>>, out,
                           IF out = "ok" THEN Grp(new) ELSE None, NoGroup, Ambient)
    /\ UNCHANGED <<attrs, handling, raises>>

(***************************************************************************)
(* ExceptionGroup._copy_magic_attrs and the host's attribute setters       *)
(***************************************************************************)
SetTraceback(a, o, v) == [a EXCEPT ![o].traceback = v]

SetContext(a, o, v) == [a EXCEPT ![o].context = v]

\* Assigning __cause__ also sets __suppress_context__ to True.
SetCause(a, o, v) == [a EXCEPT ![o].cause = v, ![o].suppress_context = TRUE]

SetSuppressContext(a, o, v) == [a EXCEPT ![o].suppress_context = v]

CopyMagicAttrsCauseLast(a, src, dst) ==
    LET a1 == SetTraceback(a, dst, a[src].traceback)
        a2 == SetContext(a1, dst, a1[src].context)
        a3 == SetSuppressContext(a2, dst, a2[src].suppress_context)
    IN  SetCause(a3, dst, a3[src].cause)

CopyMagicAttrs(a, src, dst) ==
    LET a1 == SetTraceback(a, dst, a[src].traceback)
        a2 == SetContext(a1, dst, a1[src].context)
        a3 == SetCause(a2, dst, a2[src].cause)
    IN  SetSuppressContext(a3, dst, a3[src].suppress_context)

(***************************************************************************)
(* ExceptionGroup.__copy__                                                 *)
(***************************************************************************)
Copy(g) ==
    /\ ~Propagating
    /\ g \in 1..Len(groups)
    /\ Len(groups) < MaxGroups
    /\ LET self == groups[g]
           out == InitOutcome(self.message, self.exceptions, self.sources)
           new == Len(groups) + 1
       IN  /\ groups' = IF out = "ok"
                        THEN Append(groups, NewGroup(self.message, self.exceptions,
                                                     self.sources))
                        ELSE groups
           /\ attrs' = IF out = "ok"
                       THEN CopyMagicAttrs(attrs, Grp(g), Grp(new))
                       ELSE attrs
           /\ last' = Call("copy", Grp(g), <<>>, out,
                           IF out = "ok" THEN Grp(new) ELSE None, self, Ambient)
    /\ UNCHANGED <<handling, raises>>

(***************************************************************************)
(* ExceptionGroup.add                                                      *)
(***************************************************************************)
AddExceptionsPrepend(exceptions, exception) == <<exception>> \o exceptions

AddExceptions(exceptions, exception) == Append(exceptions, exception)

AddSources(sources, source) == Append(sources, source)

AddCall(g, exception, source, args) ==
    /\ ~Propagating
    /\ g \in 1..Len(groups)
    /\ Len(groups) < MaxGroups
    /\ LET self == groups[g]
           es == AddExceptions(self.exceptions, exception)
           ss == AddSources(self.sources, source)
           out == InitOutcome(self.message, es, ss)
           new == Len(groups) + 1
       IN  /\ groups' = IF out = "ok"
                        THEN Append(groups, NewGroup(self.message, es, ss))
                        ELSE groups
           /\ attrs' = IF out = "ok"
                       THEN CopyMagicAttrs(attrs, Grp(g), Grp(new))
                       ELSE attrs
           /\ last' = Call("add", Grp(g), args, out,
                           IF out = "ok" THEN Grp(new) ELSE None, self, Ambient)
    /\ UNCHANGED <<handling, raises>>

\* add(exception, source)
Add(g, exception, source) == AddCall(g, exception, source, <<exception, source>>)

\* the default of add's parameter source
DefaultSource == ""

\* add(exception)
AddDefault(g, exception) == AddCall(g, exception, DefaultSource, <<exception>>)

(***************************************************************************)
(* ExceptionGroup.remove                                                   *)
(***************************************************************************)
\* list.index: the first position whose element is == to x; 0 stands for
\* the ValueError that list.index raises when there is none.
Index(seq, x) ==
    IF \E i \in 1..Len(seq) : PyEq(seq[i], x)
    THEN CHOOSE i \in 1..Len(seq) :
             /\ PyEq(seq[i], x)
             /\ \A j \in 1..(i - 1) : ~PyEq(seq[j], x)
    ELSE 0

RemoveExceptions(exceptions, idx) ==
    SubSeq(exceptions, 1, idx - 1) \o SubSeq(exceptions, idx + 1, Len(exceptions))

RemoveSourcesLast(sources, idx) == SubSeq(sources, 1, Len(sources) - 1)

RemoveSources(sources, idx) ==
    SubSeq(sources, 1, idx - 1) \o SubSeq(sources, idx + 1, Len(sources))

Remove(g, exception) ==
    /\ ~Propagating
    /\ g \in 1..Len(groups)
    /\ Len(groups) < MaxGroups
    /\ LET self == groups[g]
           idx == Index(self.exceptions, exception)
           es == RemoveExceptions(self.exceptions, idx)
           ss == RemoveSources(self.sources, idx)
           out == IF idx = 0 THEN "ValueError"
                  ELSE InitOutcome(self.message, es, ss)
           new == Len(groups) + 1
       IN  /\ groups' = IF out = "ok"
                        THEN Append(groups, NewGroup(self.message, es, ss))
                        ELSE groups
           /\ attrs' = IF out = "ok"
                       THEN CopyMagicAttrs(attrs, Grp(g), Grp(new))
                       ELSE attrs
           /\ last' = Call("remove", Grp(g), <<exception>>, out,
                           IF out = "ok" THEN Grp(new) ELSE None, self, Ambient)
    /\ UNCHANGED <<handling, raises>>

(***************************************************************************)
(* ExceptionGroup.__contains__, find and findall                           *)
(***************************************************************************)
ContainsIdentity(self, exception) ==
    \E i \in 1..Len(self.exceptions) : self.exceptions[i] = exception

\* exception in self.exceptions
ContainsValue(self, exception) ==
    \E i \in 1..Len(self.exceptions) : PyEq(self.exceptions[i], exception)

Contains(g, exception) ==
    /\ ~Propagating
    /\ g \in 1..Len(groups)
    /\ last' = Call("contains", Grp(g), <<exception>>, "return",
                    ContainsValue(groups[g], exception), groups[g], Ambient)
    /\ UNCHANGED <<groups, attrs, handling, raises>>

\* A predicate argument: a callable (the set of values it holds of), a type
\* or a tuple of types.
Callable(holds) == [kind |-> "callable", holds |-> holds, types |-> {}]
Type(cls) == [kind |-> "type", holds |-> {}, types |-> {cls}]
Tuple(classes) == [kind |-> "tuple", holds |-> {}, types |-> classes]

\* lines 145-147 and the call predicate(exception)
Test(predicate, exception) ==
    IF predicate.kind \in {"type", "tuple"}
    THEN IsInstance(exception, predicate.types)
    ELSE exception \in predicate.holds

\* lines 149-151
RECURSIVE ZipFilter(_, _, _, _)
ZipFilter(predicate, exceptions, sources, i) ==
    IF i > Len(exceptions) \/ i > Len(sources) THEN <<>>
    ELSE (IF Test(predicate, exceptions[i])
          THEN << <<exceptions[i], sources[i]>> >>
          ELSE <<>>)
         \o ZipFilter(predicate, exceptions, sources, i + 1)

\* line 153
RECURSIVE Filter(_, _, _)
Filter(predicate, exceptions, i) ==
    IF i > Len(exceptions) THEN <<>>
    ELSE (IF Test(predicate, exceptions[i]) THEN <<exceptions[i]>> ELSE <<>>)
         \o Filter(predicate, exceptions, i + 1)

FindAllItemsSkipFirst(self, predicate, with_source) ==
    IF with_source
    THEN ZipFilter(predicate, self.exceptions, self.sources, 2)
    ELSE Filter(predicate, self.exceptions, 2)

\* the items the generator findall yields, in the order it yields them
FindAllItems(self, predicate, with_source) ==
    IF with_source
    THEN ZipFilter(predicate, self.exceptions, self.sources, 1)
    ELSE Filter(predicate, self.exceptions, 1)

\* find: the first item of findall, or None
FindItem(self, predicate, with_source) ==
    LET items == FindAllItems(self, predicate, with_source)
    IN  IF items = <<>> THEN None ELSE items[1]

FindAll(g, predicate, with_source) ==
    /\ ~Propagating
    /\ g \in 1..Len(groups)
    /\ last' = Call("findall", Grp(g), <<predicate, with_source>>, "return",
                    FindAllItems(groups[g], predicate, with_source), groups[g],
                    Ambient)
    /\ UNCHANGED <<groups, attrs, handling, raises>>

Find(g, predicate, with_source) ==
    /\ ~Propagating
    /\ g \in 1..Len(groups)
    /\ last' = Call("find", Grp(g), <<predicate, with_source>>,
                    IF FindAllItems(groups[g], predicate, with_source) = <<>>
                    THEN "none" ELSE "item",
                    FindItem(groups[g], predicate, with_source), groups[g],
                    Ambient)
    /\ UNCHANGED <<groups, attrs, handling, raises>>

(***************************************************************************)
(* The host's raise statement: `raise exc from cause` while `ambient` is   *)
(* being handled.  __cause__ is assigned first (which sets                 *)
(* __suppress_context__); then, unless exc is the ambient exception        *)
(* itself, the ambient's context chain is cut where it leads back to exc   *)
(* and __context__ becomes the ambient exception; unwinding attaches a     *)
(* traceback.                                                              *)
(***************************************************************************)
RECURSIVE BreakContextCycle(_, _, _, _)
BreakContextCycle(a, o, exc, fuel) ==
    IF fuel = 0 \/ a[o].context = None THEN a
    ELSE IF a[o].context = exc THEN SetContext(a, o, None)
    ELSE BreakContextCycle(a, a[o].context, exc, fuel - 1)

\* plain `raise exc`
RaisePlain(a, exc, ambient) ==
    LET a1 == IF ambient # None /\ ambient # exc
              THEN SetContext(BreakContextCycle(a, ambient, exc,
                                                Cardinality(Objects)),
                              exc, ambient)
              ELSE a
    IN  SetTraceback(a1, exc, TRUE)

\* `raise exc from cause`
RaiseFrom(a, exc, cause, ambient) == RaisePlain(SetCause(a, exc, cause), exc, ambient)

(***************************************************************************)
(* ExceptionGroup.maybe_reraise                                            *)
(***************************************************************************)
RaisedValueAlwaysGroup(g, unwrap) == Grp(g)

\* lines 174-177: the value to raise
RaisedValue(g, unwrap) ==
    IF unwrap /\ Len(groups[g].exceptions) = 1
    THEN groups[g].exceptions[1]
    ELSE Grp(g)

RaiseCauseAmbientOnly(from_exception) == Ambient

\* lines 178-179: the cause to raise from
RaiseCause(from_exception) ==
    IF PyEq(from_exception, IMPLICIT) THEN Ambient ELSE from_exception

MaybeReraise(g, from_exception, unwrap) ==
    /\ ~Propagating
    /\ g \in 1..Len(groups)
    /\ LET self == groups[g]
           exc == RaisedValue(g, unwrap)
           cause == RaiseCause(from_exception)
       IN  IF self.exceptions = <<>>
           THEN /\ attrs' = attrs
                /\ raises' = raises
                /\ last' = Call("maybe_reraise", Grp(g), <<from_exception, unwrap>>,
                                "return", None, self, Ambient)
           ELSE /\ raises < MaxRaises
                /\ raises' = raises + 1
                /\ attrs' = RaiseFrom(attrs, exc, cause, Ambient)
                /\ last' = Call("maybe_reraise", Grp(g), <<from_exception, unwrap>>,
                                "raise", exc, self, Ambient)
    /\ UNCHANGED <<groups, handling>>

(***************************************************************************)
(* The calling scope: except blocks and attribute assignment.              *)
(***************************************************************************)
\* try: <other code executes `raise x`> except ... as e: the client enters
\* the handler of an exception it did not raise through maybe_reraise
ExceptForeign(x) ==
    /\ ~Propagating
    /\ raises < MaxRaises
    /\ x \in Leaves \cup {Grp(k) : k \in 1..Len(groups)}
    /\ raises' = raises + 1
    /\ attrs' = RaisePlain(attrs, x, Ambient)
    /\ handling' = Append(handling, x)
    /\ last' = [NoCall EXCEPT !.op = "except"]
    /\ UNCHANGED groups

\* an except block takes the value raised by maybe_reraise: one nested in
\* the current handler, or one outside every current handler
Except(nested) ==
    /\ Propagating
    /\ handling' = IF nested THEN Append(handling, last.value) ELSE <<last.value>>
    /\ last' = [NoCall EXCEPT !.op = "except"]
    /\ UNCHANGED <<groups, attrs, raises>>

\* the innermost except block is left
ExitHandler ==
    /\ ~Propagating
    /\ handling # <<>>
    /\ handling' = SubSeq(handling, 1, Len(handling) - 1)
    /\ last' = [NoCall EXCEPT !.op = "exit"]
    /\ UNCHANGED <<groups, attrs, raises>>

\* group.__suppress_context__ = v
AssignSuppressContext(g, v) ==
    /\ ~Propagating
    /\ g \in 1..Len(groups)
    /\ attrs[Grp(g)].suppress_context # v
    /\ attrs' = SetSuppressContext(attrs, Grp(g), v)
    /\ last' = [NoCall EXCEPT !.op = "assign"]
    /\ UNCHANGED <<groups, handling, raises>>

(***************************************************************************)
(* Specification of the constructing and transforming operations.          *)
(* A behaviour follows one constructed group and the groups derived from   *)
(* it: no operation reads any group but self.                              *)
(***************************************************************************)
\* The group the client holds: the newest one (eg = eg.remove(exc)).
Held == Len(groups)

NextStruct ==
    \/ /\ groups = <<>>
       /\ \E m \in Messages, e \in SeqsUpTo(Values, MaxLen),
             s \in SeqsUpTo(Labels, MaxLen) : Construct(m, e, s)
    \/ Copy(Held)
    \/ \E x \in Values, s \in Labels \ {DefaultSource} : Add(Held, x, s)
    \/ \E x \in Values : AddDefault(Held, x)
    \/ \E x \in Values : Remove(Held, x)

SpecStruct == Init /\ [][NextStruct]_vars

(***************************************************************************)
(* Specification of the whole machine: construction, transformation,       *)
(* re-raising and the except blocks of the calling scope.                  *)
(***************************************************************************)
RaiseLeaves == {Exc(1), Exc(2)}
RaiseInputs == {<<>>, <<Exc(1)>>, <<Exc(1), Exc(2)>>}
FromArgs == {IMPLICIT, None, Exc(2)}

Next ==
    \/ /\ groups = <<>>
       /\ \E e \in RaiseInputs : Construct("E", e, [i \in DOMAIN e |-> ""])
    \/ Len(groups) <= MaxDerived /\ Copy(Held)
    \/ Len(groups) <= MaxDerived /\ AddDefault(Held, Exc(2))
    \/ Len(groups) <= MaxDerived /\ Remove(Held, Exc(1))
    \/ \E f \in FromArgs, u \in BOOLEAN : MaybeReraise(Held, f, u)
    \/ \E x \in {Exc(2), Grp(Held)} : ExceptForeign(x)
    \/ \E n \in BOOLEAN : Except(n)
    \/ ExitHandler
    \/ \E v \in BOOLEAN : AssignSuppressContext(Held, v)

Spec == Init /\ [][Next]_vars

(***************************************************************************)
(* Specification of the searching operations on one constructed group.     *)
(***************************************************************************)
Predicates ==
    {Callable({}), Callable({Exc(1)}), Callable({Exc(2), Exc(3)}),
     Type("ValueError"), Type("TypeError"), Type("EqError"),
     Tuple({"ValueError", "TypeError"}), Tuple({})}

NextQuery ==
    \/ /\ groups = <<>>
       /\ \E m \in Messages, e \in SeqsUpTo(Leaves, MaxQueryLen) :
             \E s \in [DOMAIN e -> Labels] : Construct(m, e, s)
    \/ last.op = "init" /\ \E x \in Values : Contains(Held, x)
    \/ last.op = "init" /\ \E p \in Predicates, w \in BOOLEAN : FindAll(Held, p, w)
    \/ last.op = "init" /\ \E p \in Predicates, w \in BOOLEAN : Find(Held, p, w)

SpecQuery == Init /\ [][NextQuery]_vars

(***************************************************************************)
(* Properties.                                                             *)
(***************************************************************************)
GroupOf(ref) == groups[ref[2]]

Created == last.outcome = "ok" /\ last.op \in {"init", "copy", "add", "remove"}

Elems(seq) == {seq[i] : i \in 1..Len(seq)}

Pairs(grp) ==
    [i \in 1..Len(grp.exceptions) |->
        <<grp.exceptions[i],
          IF i <= Len(grp.sources) THEN grp.sources[i] ELSE "<missing>">>]

Without(seq, i) ==
    [j \in 1..(Len(seq) - 1) |-> IF j < i THEN seq[j] ELSE seq[j + 1]]

IsBaseError(x) == x[1] \in {"exc", "group"}

\* C1: every group on the heap has as many sources as exceptions, and
\* every group produced by Construct, __copy__, Add or Remove pairs each
\* child with the label it was constructed or added with: the pairs of a
\* constructed group are those of its arguments, a copy has the pairs of the
\* original, Add appends one pair, Remove takes one pair out.
C1_PairedSources ==
    /\ \A k \in 1..Len(groups) :
          Len(groups[k].exceptions) = Len(groups[k].sources)
    /\ Created =>
          LET new == GroupOf(last.value)
          IN  CASE last.op = "init" ->
                     /\ new.exceptions = last.args[2]
                     /\ new.sources = last.args[3]
                [] last.op = "copy" -> Pairs(new) = Pairs(last.pre)
                [] last.op = "add" ->
                     Pairs(new) = Append(Pairs(last.pre),
                                         <<last.args[1],
                                           IF Len(last.args) = 2
                                           THEN last.args[2] ELSE "">>)
                [] last.op = "remove" ->
                     \E i \in 1..Len(last.pre.exceptions) :
                        Pairs(new) = Without(Pairs(last.pre), i)

C1_Witness ==
    /\ last.op = "remove" /\ last.outcome = "ok"
    /\ Len(last.pre.exceptions) >= 2
    /\ last.args[1] = last.pre.exceptions[1]
    /\ last.pre.sources[1] # last.pre.sources[2]
    /\ Len(GroupOf(last.value).exceptions) = 1

NonConforming(exceptions) ==
    \E i \in 1..Len(exceptions) : ~IsBaseError(exceptions[i])

\* C2 as claimed: whenever the lengths of children and sources differ,
\* whatever the elements, Construct fails with ValueError and yields no
\* instance.
C2_LengthMismatchAlways ==
    (last.op = "init" /\ Len(last.args[2]) # Len(last.args[3])) =>
        /\ last.outcome = "ValueError"
        /\ last.value = None
        /\ groups = <<>>

\* C2 as amended: whenever the lengths differ Construct yields no instance;
\* it fails with ValueError when every child is a base-error value, and with
\* TypeError when some child is not (the members are checked first).
C2_LengthMismatchAfterTypeCheck ==
    (last.op = "init" /\ Len(last.args[2]) # Len(last.args[3])) =>
        /\ last.outcome = IF NonConforming(last.args[2])
                          THEN "TypeError" ELSE "ValueError"
        /\ last.value = None
        /\ groups = <<>>

C2_Witness ==
    /\ last.op = "init"
    /\ Len(last.args[2]) # Len(last.args[3])
    /\ NonConforming(last.args[2])
    /\ last.outcome = "TypeError"

\* C3: maybe_reraise returns without raising on a group with no children,
\* raises the lone child itself on a group with one child when unwrap is
\* true, and raises the group itself in every other case.
C3_RaisedValue ==
    last.op = "maybe_reraise" =>
        LET n == Len(last.pre.exceptions)
            unwrap == last.args[2]
        IN  IF n = 0
            THEN last.outcome = "return" /\ last.value = None
            ELSE /\ last.outcome = "raise"
                 /\ last.value = IF n = 1 /\ unwrap
                                 THEN last.pre.exceptions[1]
                                 ELSE last.self

C3_Witness ==
    /\ last.op = "maybe_reraise" /\ last.outcome = "raise"
    /\ Len(last.pre.exceptions) = 1
    /\ last.args[2]
    /\ last.value = last.pre.exceptions[1]

\* C4: whenever maybe_reraise raises, the cause of the raised value is the
\* exception being handled by the calling scope (None outside any handler)
\* when from_exception was left at its default, and the from_exception
\* argument otherwise, an explicit None included; __suppress_context__ of
\* the raised value is true.
C4_CauseOfRaised ==
    (last.op = "maybe_reraise" /\ last.outcome = "raise") =>
        /\ attrs[last.value].cause =
              IF last.args[1] = IMPLICIT THEN Ambient ELSE last.args[1]
        /\ attrs[last.value].suppress_context = TRUE

C4_Witness ==
    /\ last.op = "maybe_reraise" /\ last.outcome = "raise"
    /\ last.args[1] = None
    /\ Ambient # None
    /\ attrs[last.value].cause = None

FirstIdentical(seq, x) ==
    CHOOSE i \in 1..Len(seq) :
        seq[i] = x /\ \A j \in 1..(i - 1) : seq[j] # x

\* C5 as claimed: Remove(child) takes out the first position holding the
\* very object child, keeping message and the order of the other pairs, and
\* fails with ValueError, leaving the group as it was, when no position
\* holds that object.
C5_RemoveByIdentity ==
    last.op = "remove" =>
        LET x == last.args[1]
            es == last.pre.exceptions
        IN  IF x \in Elems(es)
            THEN /\ last.outcome = "ok"
                 /\ last.value # last.self
                 /\ GroupOf(last.value).message = last.pre.message
                 /\ GroupOf(last.value).exceptions
                       = Without(es, FirstIdentical(es, x))
                 /\ GroupOf(last.value).sources
                       = Without(last.pre.sources, FirstIdentical(es, x))
            ELSE /\ last.outcome = "ValueError"
                 /\ last.value = None
                 /\ GroupOf(last.self) = last.pre

\* C6: Add returns a new, distinct group with the message of the original
\* and its children and sources with child and source (the empty string by
\* default) appended at the end; the original is unchanged; a child that is
\* not a base-error value makes Add fail with TypeError, the original
\* unchanged and no group created.
C6_AddAppends ==
    last.op = "add" =>
        LET x == last.args[1]
            source == IF Len(last.args) = 2 THEN last.args[2] ELSE ""
        IN  /\ GroupOf(last.self) = last.pre
            /\ IF IsBaseError(x)
               THEN /\ last.outcome = "ok"
                    /\ last.value # last.self
                    /\ last.value = Grp(Len(groups))
                    /\ GroupOf(last.value).message = last.pre.message
                    /\ GroupOf(last.value).exceptions
                          = Append(last.pre.exceptions, x)
                    /\ GroupOf(last.value).sources
                          = Append(last.pre.sources, source)
               ELSE /\ last.outcome = "TypeError"
                    /\ last.value = None
                    /\ last.self = Grp(Len(groups))

C6_Witness ==
    /\ last.op = "add" /\ last.outcome = "ok"
    /\ Len(last.args) = 1
    /\ Len(last.pre.exceptions) >= 1
    /\ last.pre.exceptions[1] # last.args[1]
    /\ last.pre.sources[1] # ""

LooksEqual(a, b) == a # b /\ ClassOf(a) = ClassOf(b)

\* C7 as claimed: Contains(x) is true on a group that received x through
\* Construct or Add, false on the group returned by Remove(x), and false
\* for a distinct value that looks equal to a member.
C7_ContainsByIdentity ==
    /\ (last.op = "init" /\ last.outcome = "ok") =>
          \A x \in Elems(last.args[2]) : ContainsValue(GroupOf(last.value), x)
    /\ (last.op = "add" /\ last.outcome = "ok") =>
          ContainsValue(GroupOf(last.value), last.args[1])
    /\ (last.op = "remove" /\ last.outcome = "ok") =>
          ~ContainsValue(GroupOf(last.value), last.args[1])
    /\ \A k \in 1..Len(groups), y \in Leaves :
          (\E m \in Elems(groups[k].exceptions) : LooksEqual(m, y))
          /\ y \notin Elems(groups[k].exceptions)
          => ~ContainsValue(groups[k], y)

Occurrences(seq, x) == Cardinality({i \in 1..Len(seq) : PyEq(seq[i], x)})

\* C7 as amended: Contains(x) is true on a group that received x through
\* Construct or Add; on the group returned by Remove(x) it is false exactly
\* when x matched one position only (Remove takes out the first matching
\* position and a second one keeps x contained); a distinct value that
\* looks equal to a member is contained exactly when its class overrides
\* equality, and is not contained otherwise.
C7_ContainsByEquality ==
    /\ (last.op = "init" /\ last.outcome = "ok") =>
          \A x \in Elems(last.args[2]) : ContainsValue(GroupOf(last.value), x)
    /\ (last.op = "add" /\ last.outcome = "ok") =>
          ContainsValue(GroupOf(last.value), last.args[1])
    /\ (last.op = "remove" /\ last.outcome = "ok") =>
          (ContainsValue(GroupOf(last.value), last.args[1])
           <=> Occurrences(last.pre.exceptions, last.args[1]) >= 2)
    /\ \A k \in 1..Len(groups), y \in Leaves :
          (\E m \in Elems(groups[k].exceptions) : LooksEqual(m, y))
          /\ y \notin Elems(groups[k].exceptions)
          => (ContainsValue(groups[k], y) <=> ClassOf(y) = "EqError")

C7_Witness ==
    /\ last.op = "remove" /\ last.outcome = "ok"
    /\ last.args[1] \in ValueErrors
    /\ ContainsValue(GroupOf(last.value), last.args[1])

\* C8: the group produced by __copy__, Add or Remove has the cause, the
\* context and the suppress_context of the original, whatever they are, a
\* cause with suppress_context false included.
C8_MagicAttrsCopied ==
    (last.op \in {"copy", "add", "remove"} /\ last.outcome = "ok") =>
        /\ attrs[last.value].cause = attrs[last.self].cause
        /\ attrs[last.value].context = attrs[last.self].context
        /\ attrs[last.value].suppress_context = attrs[last.self].suppress_context

C8_Witness ==
    /\ last.op = "copy" /\ last.outcome = "ok"
    /\ attrs[last.self].cause # None
    /\ attrs[last.self].context # None
    /\ attrs[last.self].suppress_context = FALSE
    /\ attrs[last.value].suppress_context = FALSE

\* what the claim calls satisfying the predicate
Satisfies(predicate, x) ==
    IF predicate.kind = "callable"
    THEN x \in predicate.holds
    ELSE \E c \in predicate.types : c \in Mro(ClassOf(x))

Matching(grp, predicate) ==
    {i \in 1..Len(grp.exceptions) : Satisfies(predicate, grp.exceptions[i])}

Nth(M, j) == CHOOSE i \in M : Cardinality({k \in M : k <= i}) = j

Expected(grp, predicate, with_source) ==
    LET M == Matching(grp, predicate)
    IN  [j \in 1..Cardinality(M) |->
            IF with_source
            THEN <<grp.exceptions[Nth(M, j)], grp.sources[Nth(M, j)]>>
            ELSE grp.exceptions[Nth(M, j)]]

\* C9: findall yields exactly the children satisfying the predicate, in
\* their order in the group, each paired with the source at its position
\* when with_source is true; find returns the first of them, or None when
\* there is none.
C9_FindAllInOrder ==
    /\ last.op = "findall" =>
          last.value = Expected(last.pre, last.args[1], last.args[2])
    /\ last.op = "find" =>
          IF Matching(last.pre, last.args[1]) = {}
          THEN last.outcome = "none"
          ELSE /\ last.outcome = "item"
               /\ last.value = Expected(last.pre, last.args[1], last.args[2])[1]

C9_Witness ==
    /\ last.op = "findall"
    /\ last.args[2]
    /\ last.args[1].kind = "type"
    /\ Len(last.value) = 2
    /\ Len(last.pre.exceptions) = 3
    /\ last.value[1][2] # last.value[2][2]
    /\ ~Satisfies(last.args[1], last.pre.exceptions[2])

\* C10 as claimed: whenever maybe_reraise raises, the cause of the raised
\* value is not the raised value itself.
C10_NoSelfCause ==
    (last.op = "maybe_reraise" /\ last.outcome = "raise") =>
        attrs[last.value].cause # last.value

====
